---- MODULE Spec2Model ----
(***************************************************************************)
(* The two reference servers of docker/pymodbus-server/reference_server.py *)
(* (ReferenceServer, plaintext Modbus/TCP) and                             *)
(* docker/pymodbus-tls-server/tls_reference_server.py (TLSReferenceServer, *)
(* Modbus/TCP Security).                                                   *)
(*                                                                         *)
(* Spec      one server process from the installation of the signal        *)
(*           handlers to process exit: main / json_main, start(), stop().  *)
(* FairSpec  Spec with the event loop's progress stated as fairness.       *)
(*                                                                         *)
(* The calls into pymodbus, ssl and asyncio are modelled by what the       *)
(* library does at the call site; each such definition says so.            *)
(***************************************************************************)
EXTENDS Integers, Sequences, FiniteSets, TLC

VARIABLES
    variant,        \* "tcp": reference_server.py, "tls": tls_reference_server.py
    json,           \* args.json
    verbose,        \* args.verbose
    port,           \* self.port, the requested port
    cafile,         \* self.cafile is set (TLS only)
    pc,             \* position of main / json_main
    shutdown_event, \* asyncio.Event: is it set
    pending,        \* signals delivered to the process, handler not yet run
    delivered,      \* number of SIGINT/SIGTERM delivered so far
    server,         \* self.server: "None" or "obj"
    transport,      \* self.server.transport after serve_forever returned
    listening,      \* the library server holds a bound, accepting socket
    realized,       \* port of the bound socket (0: no socket)
    actual_port,    \* self.actual_port (None: NoPort)
    sslctx,         \* the ssl.SSLContext handed to ModbusTlsServer
    stdout,         \* lines written to standard output
    stderr,         \* lines written to standard error
    exc,            \* an exception is propagating out of main
    exitStatus,     \* exit status of the process (NoExit while running)
    failure,        \* which startup step failed: "none", "cert", "bind"
    everBound,      \* a listening socket has been bound in this run
    shutdownCalls,  \* number of completed self.server.shutdown() calls
    objs,           \* per library server object created, in order of creation:
                    \* the number of shutdown() calls made on it
    calls,          \* start()/stop() calls made by a caller other than main
    store,          \* the four data blocks of the device context
    conn,           \* per client connection: its state, the TLS version the
                    \* client offered and the version negotiated
    hist,           \* the requests served so far, in order
    resp,           \* the response to the last request
    inflight        \* per client connection: the request whose handler task
                    \* is scheduled or running, and how much of it is applied

procVars == <<variant, json, verbose, port, cafile, pc, shutdown_event, pending,
              delivered, server, transport, listening, realized, actual_port,
              sslctx, stdout, stderr, exc, exitStatus, failure, everBound,
              shutdownCalls, objs, calls>>

dataVars == <<store, conn, hist, resp, inflight>>

vars == <<procVars, dataVars>>

----------------------------------------------------------------------------
(* Bounds of the model *)

\* SIGINT/SIGTERM deliveries considered in one run
MaxSignals == 2

\* client connections considered
MaxConns == 2

\* start()/stop() calls a caller other than main makes in one run
MaxCalls == 2

\* requests served in one run
MaxRequests == 2

----------------------------------------------------------------------------
(* Values *)

Variants == {"tcp", "tls"}

\* self.actual_port = None
NoPort == -1

\* the process has not exited
NoExit == -1

\* --port: 0 asks for an ephemeral port, the others are fixed ports
\* (802 is the TLS default, 5020 the port of the usage examples)
RequestedPorts == {0, 802, 5020}

\* what the kernel can hand out for port 0
EphemeralPorts == {1, 49152, 65535}

\* ssl.TLSVersion.TLSv1_2 (TLSv1 = 769, TLSv1_1 = 770, TLSv1_2 = 771,
\* TLSv1_3 = 772)
TLSv1_2 == 771

\* the highest protocol version a connecting client offers
ClientVersions == 769..772

\* what a client presents when the server asks for a certificate
ClientCerts == {"none", "valid", "invalid"}

\* no ssl.SSLContext (plaintext server, or start() not yet run)
NoContext == [minimum_version |-> 0, verify_mode |-> "unset"]

\* shapes self.server.transport can have when serve_forever has returned:
\*   "none"       falsy: no listener (pymodbus listen() caught the OSError of
\*                the bind, logged "Failed to start server" and returned)
\*   "nosockets"  an object without a sockets attribute
\*   "empty"      an asyncio.Server whose sockets is empty
\*   "sockets"    an asyncio.Server with its listening socket
TransportShapes == {"none", "nosockets", "empty", "sockets"}

----------------------------------------------------------------------------
(* The seeded datastore, _create_datastore of each server *)

Spaces == {"co", "di", "hr", "ir"}

COIL_COUNT == 1000
DISCRETE_INPUT_COUNT == 1000

\* (variation: the holding register block two registers too long)
HOLDING_REGISTER_COUNT_Long == 1000 + 2

HOLDING_REGISTER_COUNT == 1000
INPUT_REGISTER_COUNT == 1000

\* ModbusSequentialDataBlock(address, values): the Python list values[0..n-1]
\* is the sequence values[1..n] here
ModbusSequentialDataBlock(address, values) ==
    [address |-> address, values |-> values]

\* before start() there is no datastore
NoStore == [s \in Spaces |-> ModbusSequentialDataBlock(0, <<>>)]

ReferenceServer_create_datastore ==
    LET coils == [k \in 1..COIL_COUNT |-> (k - 1) % 2 = 0]
        discrete_inputs == [k \in 1..DISCRETE_INPUT_COUNT |-> (k - 1) < 100]
        holding_registers == [k \in 1..HOLDING_REGISTER_COUNT |-> k - 1]
        input_registers == [k \in 1..INPUT_REGISTER_COUNT |-> (k - 1) * 10]
    IN  [co |-> ModbusSequentialDataBlock(0, coils),
         di |-> ModbusSequentialDataBlock(0, discrete_inputs),
         hr |-> ModbusSequentialDataBlock(0, holding_registers),
         ir |-> ModbusSequentialDataBlock(0, input_registers)]

TLS_COIL_COUNT == 1000
TLS_DISCRETE_INPUT_COUNT == 1000
TLS_HOLDING_REGISTER_COUNT == 1000
TLS_INPUT_REGISTER_COUNT == 1000

\* (variation: the TLS server seeds its input registers with address * 100)
TLSReferenceServer_create_datastore_Drift ==
    LET coils == [k \in 1..TLS_COIL_COUNT |-> (k - 1) % 2 = 0]
        discrete_inputs == [k \in 1..TLS_DISCRETE_INPUT_COUNT |-> (k - 1) < 100]
        holding_registers == [k \in 1..TLS_HOLDING_REGISTER_COUNT |-> k - 1]
        input_registers == [k \in 1..TLS_INPUT_REGISTER_COUNT |-> (k - 1) * 100]
    IN  [co |-> ModbusSequentialDataBlock(0, coils),
         di |-> ModbusSequentialDataBlock(0, discrete_inputs),
         hr |-> ModbusSequentialDataBlock(0, holding_registers),
         ir |-> ModbusSequentialDataBlock(0, input_registers)]

TLSReferenceServer_create_datastore ==
    LET coils == [k \in 1..TLS_COIL_COUNT |-> (k - 1) % 2 = 0]
        discrete_inputs == [k \in 1..TLS_DISCRETE_INPUT_COUNT |-> (k - 1) < 100]
        holding_registers == [k \in 1..TLS_HOLDING_REGISTER_COUNT |-> k - 1]
        input_registers == [k \in 1..TLS_INPUT_REGISTER_COUNT |-> (k - 1) * 10]
    IN  [co |-> ModbusSequentialDataBlock(0, coils),
         di |-> ModbusSequentialDataBlock(0, discrete_inputs),
         hr |-> ModbusSequentialDataBlock(0, holding_registers),
         ir |-> ModbusSequentialDataBlock(0, input_registers)]

create_datastore(v) ==
    IF v = "tcp" THEN ReferenceServer_create_datastore
    ELSE TLSReferenceServer_create_datastore

----------------------------------------------------------------------------
(* start(): the SSL context and the realized port *)

\* (variation: the context leaves the minimum at TLS 1.0)
create_ssl_context_NoMinimum(ca) ==
    [minimum_version |-> 769,
     verify_mode |-> IF ca THEN "CERT_OPTIONAL" ELSE "CERT_NONE"]

\* TLSReferenceServer._create_ssl_context, when load_cert_chain (and
\* load_verify_locations) succeed
create_ssl_context(ca) ==
    [minimum_version |-> TLSv1_2,
     verify_mode |-> IF ca THEN "CERT_OPTIONAL" ELSE "CERT_NONE"]

\* start(), from "Get actual port from server transport" to the return value:
\* t is the shape of self.server.transport, sockport the port that
\* sockets[0].getsockname()[1] would give, ap self.actual_port, p self.port
GetActualPort(t, sockport, ap, p) ==
    LET looked == IF t # "none" /\ t # "nosockets"
                  THEN (IF t # "empty" THEN sockport ELSE ap)
                  ELSE ap
    IN  IF looked = NoPort THEN p ELSE looked

----------------------------------------------------------------------------
(* What main and json_main write *)

Host(v) == IF v = "tcp" THEN "127.0.0.1" ELSE "0.0.0.0"

\* print(f"MODBUS_PORT={actual_port}") / print(f"MODBUS_TLS_PORT={actual_port}")
PortLine(v, p) ==
    [kind |-> IF v = "tcp" THEN "MODBUS_PORT" ELSE "MODBUS_TLS_PORT", port |-> p]

\* print(json.dumps({"host":, "port":, ..., "status": "running"}))
JsonLine(v, p) ==
    [kind |-> "json", host |-> Host(v), port |-> p, tls |-> (v = "tls"),
     status |-> "running"]

\* (variation: json_main prints the port line as well as the JSON object)
StdoutAfterStart_Both(v, j, out, p) ==
    IF j THEN Append(Append(out, PortLine(v, p)), JsonLine(v, p))
    ELSE Append(out, PortLine(v, p))

\* standard output after the print that follows start(): one port line in main,
\* one JSON object in json_main
StdoutAfterStart(v, j, out, p) ==
    IF j THEN Append(out, JsonLine(v, p)) ELSE Append(out, PortLine(v, p))

\* standard error after the verbose block of main (json_main has none)
StderrAfterStart(v, j, vb, err) ==
    IF ~j /\ vb
    THEN err \o (IF v = "tcp"
                 THEN <<"pymodbus version", "Server listening", "Press Ctrl+C">>
                 ELSE <<"pymodbus version", "TLS Server listening",
                        "Certificate", "Press Ctrl+C">>)
    ELSE err

\* exit status of the interpreter when asyncio.run returns or raises
ExitStatusOf(e) == IF e THEN 1 ELSE 0

----------------------------------------------------------------------------
(* Client connections and responses *)

Conns == 1..MaxConns

\* a connection nobody has opened yet
NoConn == [state |-> "idle", offered |-> 0, tls |-> 0]

NoResp == [kind |-> "none", code |-> 0, values |-> <<>>]

\* a connection with no request being handled; last is the position in hist
\* of the last request served on the connection (0: none yet)
NoTask == [stage |-> "none",
           req |-> [fc |-> 0, address |-> 0, count |-> 0, values |-> <<>>],
           done |-> 0, last |-> 0]

----------------------------------------------------------------------------
(* One server process: main (default mode) and json_main (--json) *)

\* the state when the signal handlers have just been installed
Init ==
    /\ variant \in Variants
    /\ json \in BOOLEAN
    /\ verbose \in BOOLEAN
    /\ port \in RequestedPorts
    /\ cafile \in (IF variant = "tls" THEN BOOLEAN ELSE {FALSE})
    /\ pc = "start"
    /\ shutdown_event = FALSE
    /\ pending = 0
    /\ delivered = 0
    /\ server = "None"
    /\ transport = "none"
    /\ listening = FALSE
    /\ realized = 0
    /\ actual_port = NoPort
    /\ sslctx = NoContext
    /\ stdout = <<>>
    /\ stderr = <<>>
    /\ exc = FALSE
    /\ exitStatus = NoExit
    /\ failure = "none"
    /\ everBound = FALSE
    /\ shutdownCalls = 0
    /\ objs = <<>>
    /\ calls = 0
    /\ store = NoStore
    /\ conn = [c \in Conns |-> NoConn]
    /\ hist = <<>>
    /\ resp = NoResp
    /\ inflight = [c \in Conns |-> NoTask]

\* an exception leaves start(): main runs its finally block, json_main has none
\* and the exception leaves asyncio.run
PcAfterRaise(j) == IF j THEN "exit" ELSE "finally"

\* the kernel delivers SIGINT or SIGTERM to the process
Signal ==
    /\ pc # "done"
    /\ delivered < MaxSignals
    /\ delivered' = delivered + 1
    /\ pending' = pending + 1
    /\ UNCHANGED <<variant, json, verbose, port, cafile, pc, shutdown_event,
                   server, transport, listening, realized, actual_port, sslctx,
                   stdout, stderr, exc, exitStatus, failure, everBound,
                   shutdownCalls, objs, calls, dataVars>>

\* positions at which the coroutine is suspended and the event loop runs
\* callbacks: the three awaits on the library and the wait on the event
AwaitPoints == {"serve", "wait", "shutdown"}

\* (variation: a handler that sets the event only once main is waiting, so a
\* signal handled while start() awaits the library is dropped)
SignalHandler_OnlyWhenWaiting ==
    /\ pc \in AwaitPoints
    /\ pending > 0
    /\ pending' = pending - 1
    /\ shutdown_event' = (shutdown_event \/ pc = "wait")
    /\ UNCHANGED <<variant, json, verbose, port, cafile, pc, delivered,
                   server, transport, listening, realized, actual_port, sslctx,
                   stdout, stderr, exc, exitStatus, failure, everBound,
                   shutdownCalls, objs, calls, dataVars>>

\* signal_handler, run by the event loop: shutdown_event.set()
SignalHandler ==
    /\ pc \in AwaitPoints
    /\ pending > 0
    /\ pending' = pending - 1
    /\ shutdown_event' = TRUE
    /\ UNCHANGED <<variant, json, verbose, port, cafile, pc, delivered,
                   server, transport, listening, realized, actual_port, sslctx,
                   stdout, stderr, exc, exitStatus, failure, everBound,
                   shutdownCalls, objs, calls, dataVars>>

\* start() up to the assignment of self.server: the datastore, the identity,
\* for TLS the SSL context (load_cert_chain raises when a file is missing or
\* unreadable), then the library server object
StartCreate ==
    /\ pc = "start"
    /\ \E loaded \in (IF variant = "tls" THEN BOOLEAN ELSE {TRUE}) :
         IF loaded
         THEN /\ store' = create_datastore(variant)
              /\ sslctx' = IF variant = "tls" THEN create_ssl_context(cafile)
                           ELSE NoContext
              /\ server' = "obj"
              /\ objs' = Append(objs, 0)
              /\ pc' = "serve"
              /\ UNCHANGED <<exc, failure>>
         ELSE /\ exc' = TRUE
              /\ failure' = "cert"
              /\ pc' = PcAfterRaise(json)
              /\ UNCHANGED <<store, sslctx, server, objs>>
    /\ UNCHANGED <<variant, json, verbose, port, cafile, shutdown_event,
                   pending, delivered, transport, listening, realized,
                   actual_port, stdout, stderr, exitStatus, everBound,
                   shutdownCalls, calls, conn, hist, resp, inflight>>

\* await self.server.serve_forever(background=True). The library binds the
\* socket. When the bind fails, the OSError either propagates, or (pymodbus
\* ModbusProtocol.listen) is caught and logged and serve_forever returns with
\* self.server.transport unset.
ServeForever ==
    /\ pc = "serve"
    /\ \/ \E t \in TransportShapes \ {"none"},
             p \in (IF port = 0 THEN EphemeralPorts ELSE {port}) :
            /\ transport' = t
            /\ listening' = TRUE
            /\ everBound' = TRUE
            /\ realized' = p
            /\ pc' = "lookup"
            /\ UNCHANGED <<exc, failure>>
       \/ /\ transport' = "none"
          /\ failure' = "bind"
          /\ pc' = "lookup"
          /\ UNCHANGED <<listening, everBound, realized, exc>>
       \/ /\ exc' = TRUE
          /\ failure' = "bind"
          /\ pc' = PcAfterRaise(json)
          /\ UNCHANGED <<transport, listening, everBound, realized>>
    /\ UNCHANGED <<variant, json, verbose, port, cafile, shutdown_event,
                   pending, delivered, server, actual_port, sslctx, stdout,
                   stderr, exitStatus, shutdownCalls, objs, calls, dataVars>>

\* the rest of start(): self.actual_port is set and returned
StartReturn ==
    /\ pc = "lookup"
    /\ actual_port' = GetActualPort(transport, realized, actual_port, port)
    /\ pc' = "print"
    /\ UNCHANGED <<variant, json, verbose, port, cafile, shutdown_event,
                   pending, delivered, server, transport, listening, realized,
                   sslctx, stdout, stderr, exc, exitStatus, failure, everBound,
                   shutdownCalls, objs, calls, dataVars>>

\* the print after start(), and main's verbose lines on standard error
PrintPort ==
    /\ pc = "print"
    /\ stdout' = StdoutAfterStart(variant, json, stdout, actual_port)
    /\ stderr' = StderrAfterStart(variant, json, verbose, stderr)
    /\ pc' = "wait"
    /\ UNCHANGED <<variant, json, verbose, port, cafile, shutdown_event,
                   pending, delivered, server, transport, listening, realized,
                   actual_port, sslctx, exc, exitStatus, failure, everBound,
                   shutdownCalls, objs, calls, dataVars>>

\* await shutdown_event.wait() returns once the event is set
Wait ==
    /\ pc = "wait"
    /\ shutdown_event
    /\ pc' = IF json THEN "stop" ELSE "finally"
    /\ UNCHANGED <<variant, json, verbose, port, cafile, shutdown_event,
                   pending, delivered, server, transport, listening, realized,
                   actual_port, sslctx, stdout, stderr, exc, exitStatus,
                   failure, everBound, shutdownCalls, objs, calls, dataVars>>

\* main's finally block up to the call of server.stop()
Finally ==
    /\ pc = "finally"
    /\ stderr' = IF verbose THEN Append(stderr, "Shutting down...") ELSE stderr
    /\ pc' = "stop"
    /\ UNCHANGED <<variant, json, verbose, port, cafile, shutdown_event,
                   pending, delivered, server, transport, listening, realized,
                   actual_port, sslctx, stdout, exc, exitStatus, failure,
                   everBound, shutdownCalls, objs, calls, dataVars>>

\* shutdown() is called on the object self.server refers to, the one created
\* last
ShutdownOf(o) ==
    IF o = <<>> THEN o ELSE [o EXCEPT ![Len(o)] = @ + 1]

\* (variation: stop() leaves self.server as it is)
ServerAfterStop_Kept == "obj"

\* stop(): self.server = None
ServerAfterStop == "None"

\* stop(): if self.server: await self.server.shutdown()
Stop ==
    /\ pc = "stop"
    /\ pc' = IF server # "None" THEN "shutdown" ELSE "exit"
    /\ UNCHANGED <<variant, json, verbose, port, cafile, shutdown_event,
                   pending, delivered, server, transport, listening, realized,
                   actual_port, sslctx, stdout, stderr, exc, exitStatus,
                   failure, everBound, shutdownCalls, objs, calls, dataVars>>

\* self.server.shutdown() completes (the listener is closed), then
\* self.server = None
Shutdown ==
    /\ pc = "shutdown"
    /\ shutdownCalls' = shutdownCalls + 1
    /\ objs' = ShutdownOf(objs)
    /\ listening' = FALSE
    /\ transport' = "none"
    /\ server' = ServerAfterStop
    /\ pc' = "exit"
    /\ UNCHANGED <<variant, json, verbose, port, cafile, shutdown_event,
                   pending, delivered, realized, actual_port, sslctx, stdout,
                   stderr, exc, exitStatus, failure, everBound, calls,
                   dataVars>>

\* asyncio.run returns (status 0) or raises (traceback, status 1)
Exit ==
    /\ pc = "exit"
    /\ exitStatus' = ExitStatusOf(exc)
    /\ pc' = "done"
    /\ UNCHANGED <<variant, json, verbose, port, cafile, shutdown_event,
                   pending, delivered, server, transport, listening, realized,
                   actual_port, sslctx, stdout, stderr, exc, failure,
                   everBound, shutdownCalls, objs, calls, dataVars>>

\* the steps of the process itself (everything but the kernel's Signal)
Run ==
    \/ SignalHandler
    \/ StartCreate
    \/ ServeForever
    \/ StartReturn
    \/ PrintPort
    \/ Wait
    \/ Finally
    \/ Stop
    \/ Shutdown
    \/ Exit

Next == Signal \/ Run

Spec == Init /\ [][Next]_vars

\* the event loop keeps running callbacks and the awaited library calls return
FairSpec == Spec /\ WF_vars(Run)

\* start() and stop() are public methods: the positions at which neither is
\* running, so that a caller can make the next call. These are before main's
\* own start() ("start"), after start() has returned ("print") or raised
\* ("finally", "exit"), and after stop() has returned ("exit").
CallPoints == {"start", "print", "finally", "exit"}

\* a caller calls start() or stop() next, in any order, instead of going on
\* as main does; an exception of the previous call has been caught. Signals
\* only set the event main waits on, which start() and stop() never read, so
\* the caller's runs are taken without signals.
Call ==
    /\ pc \in CallPoints
    /\ delivered = 0
    /\ calls < MaxCalls
    /\ calls' = calls + 1
    /\ \E m \in (IF pc = "start" THEN {"stop"} ELSE {"start", "stop"}) :
          pc' = m
    /\ exc' = FALSE
    /\ UNCHANGED <<variant, json, verbose, port, cafile, shutdown_event,
                   pending, delivered, server, transport, listening, realized,
                   actual_port, sslctx, stdout, stderr, exitStatus, failure,
                   everBound, shutdownCalls, objs, dataVars>>

\* the steps of start() and of stop()
Method ==
    \/ StartCreate
    \/ ServeForever
    \/ StartReturn
    \/ Stop
    \/ Shutdown

\* main runs as in Next until a caller takes over; from then on only the
\* caller's calls run
LifeNext ==
    \/ (calls = 0 /\ Next)
    \/ Call
    \/ (calls > 0 /\ Method)

\* the runs of main and json_main, and every sequence of start() and stop()
LifeSpec == Init /\ [][LifeNext]_vars

----------------------------------------------------------------------------
(* The datastore behind the library server.                                *)
(* store = ModbusDeviceContext(co=, di=, hr=, ir=), each a                  *)
(* ModbusSequentialDataBlock(0, <seed list>). The context is built with    *)
(* pymodbus' defaults, under which ModbusDeviceContext.getValues/setValues *)
(* /validate add one to the request address before they index the block    *)
(* ("address += 1"), and the block checks                                  *)
(* self.address <= address and address + count <= self.address + len.      *)

\* ModbusDeviceContext.decode: function code -> data block, as in the
\* comments of _create_datastore (coils FC 1/5/15, discrete inputs FC 2,
\* holding registers FC 3/6/16, input registers FC 4)
Decode(fc) ==
    CASE fc \in {1, 5, 15} -> "co"
      [] fc = 2 -> "di"
      [] fc \in {3, 6, 16} -> "hr"
      [] fc = 4 -> "ir"

ReadFCs == {1, 2, 3, 4}
WriteFCs == {5, 6, 15, 16}

\* ModbusSequentialDataBlock.validate
BlockValidate(b, address, count) ==
    /\ b.address <= address
    /\ b.address + Len(b.values) >= address + count

\* ModbusSequentialDataBlock.getValues: values[start : start + count]
BlockGetValues(b, address, count) ==
    LET start == address - b.address
    IN  [k \in 1..count |-> b.values[start + k]]

\* ModbusSequentialDataBlock.setValues: values[start : start + len] = vals
BlockSetValues(b, address, vals) ==
    LET start == address - b.address
    IN  [b EXCEPT !.values =
            [i \in 1..Len(b.values) |->
                IF start < i /\ i <= start + Len(vals)
                THEN vals[i - start] ELSE b.values[i]]]

\* the block address the device context uses for a request address
ContextAddress(address) == address + 1

ContextValidate(ctx, fc, address, count) ==
    BlockValidate(ctx[Decode(fc)], ContextAddress(address), count)

ContextGetValues(ctx, fc, address, count) ==
    BlockGetValues(ctx[Decode(fc)], ContextAddress(address), count)

ContextSetValues(ctx, fc, address, vals) ==
    [ctx EXCEPT ![Decode(fc)] =
        BlockSetValues(ctx[Decode(fc)], ContextAddress(address), vals)]

\* ExceptionResponse(function_code, ILLEGAL_ADDRESS): exception code 0x02
IllegalAddressResponse ==
    [kind |-> "exception", code |-> 2, values |-> <<>>]

ValuesResponse(vals) ==
    [kind |-> "values", code |-> 0, values |-> vals]

\* the echo of a write request
WriteResponse(vals) ==
    [kind |-> "written", code |-> 0, values |-> vals]

\* a request PDU: reads carry a count, writes the values to store
ReadRequest(fc, address, count) ==
    [fc |-> fc, address |-> address, count |-> count, values |-> <<>>]

WriteRequest(fc, address, vals) ==
    [fc |-> fc, address |-> address, count |-> Len(vals), values |-> vals]

\* the request handler (update_datastore): validate the range against the
\* context, answer ILLEGAL_ADDRESS if it fails, else read or write; open says
\* whether the request loop goes on to the next request (an exception
\* response is an ordinary response)
Execute(ctx, req) ==
    IF ~ContextValidate(ctx, req.fc, req.address, req.count)
    THEN [store |-> ctx, resp |-> IllegalAddressResponse, open |-> TRUE]
    ELSE IF req.fc \in ReadFCs
    THEN [store |-> ctx,
          resp |-> ValuesResponse(
                     ContextGetValues(ctx, req.fc, req.address, req.count)),
          open |-> TRUE]
    ELSE [store |-> ContextSetValues(ctx, req.fc, req.address, req.values),
          resp |-> WriteResponse(req.values),
          open |-> TRUE]

----------------------------------------------------------------------------
(* The server while main is blocked in shutdown_event.wait(): clients       *)
(* connect, for TLS shake hands, and send requests                          *)

\* request addresses: the first and the last of a block
ReqAddresses == {0, 999}

\* FC 1..4 for one value, FC 1 and 3 also for two, and the five holding
\* registers from address 0
ReadRequests ==
    {ReadRequest(fc, a, 1) : fc \in ReadFCs, a \in ReqAddresses}
    \cup {ReadRequest(fc, a, 2) : fc \in {1, 3}, a \in ReqAddresses}
    \cup {ReadRequest(3, 0, 5)}

\* FC 5 Write Single Coil, FC 15 Write Multiple Coils
CoilWriteRequests ==
    {WriteRequest(5, a, <<b>>) : a \in ReqAddresses, b \in BOOLEAN}
    \cup {WriteRequest(15, a, <<TRUE, TRUE>>) : a \in ReqAddresses}

\* FC 6 Write Single Register, FC 16 Write Multiple Registers
RegisterWriteRequests ==
    {WriteRequest(6, a, <<7>>) : a \in ReqAddresses}
    \cup {WriteRequest(16, a, <<7, 65535>>) : a \in ReqAddresses}

\* main blocked in the wait after a start() that bound an ephemeral port
ServeInit ==
    /\ variant \in Variants
    /\ json = FALSE
    /\ verbose = FALSE
    /\ port = 0
    /\ cafile \in (IF variant = "tls" THEN BOOLEAN ELSE {FALSE})
    /\ pc = "wait"
    /\ shutdown_event = FALSE
    /\ pending = 0
    /\ delivered = 0
    /\ server = "obj"
    /\ transport = "sockets"
    /\ listening = TRUE
    /\ realized = 49152
    /\ actual_port = 49152
    /\ sslctx = (IF variant = "tls" THEN create_ssl_context(cafile)
                 ELSE NoContext)
    /\ stdout = <<PortLine(variant, 49152)>>
    /\ stderr = <<>>
    /\ exc = FALSE
    /\ exitStatus = NoExit
    /\ failure = "none"
    /\ everBound = TRUE
    /\ shutdownCalls = 0
    /\ objs = <<0>>
    /\ calls = 0
    /\ store = create_datastore(variant)
    /\ hist = <<>>
    /\ resp = NoResp
    /\ inflight = [c \in Conns |-> NoTask]

ConnInit ==
    /\ ServeInit
    /\ conn = [c \in Conns |-> NoConn]

\* the TLS server handshake under context ctx with a client whose highest
\* version is v and who presents cert: it completes iff v is not below
\* ctx.minimum_version and, when the context verifies client certificates
\* (CERT_OPTIONAL), the client presents none or a valid one
HandshakeCompletes(ctx, v, cert) ==
    /\ v >= ctx.minimum_version
    /\ (ctx.verify_mode = "CERT_NONE" \/ cert # "invalid")

\* the listener accepts a TCP connection; the plaintext server enters the
\* request loop at once, the TLS server starts the handshake
Connect(c) ==
    /\ listening
    /\ conn[c].state = "idle"
    /\ conn' = [conn EXCEPT ![c].state =
                    IF variant = "tls" THEN "handshake" ELSE "loop"]
    /\ UNCHANGED <<procVars, store, hist, resp, inflight>>

\* the TLS handshake of connection c ends
Handshake(c) ==
    /\ conn[c].state = "handshake"
    /\ \E v \in ClientVersions, cert \in ClientCerts :
         conn' = [conn EXCEPT ![c] =
                    IF HandshakeCompletes(sslctx, v, cert)
                    THEN [state |-> "loop", offered |-> v, tls |-> v]
                    ELSE [state |-> "closed", offered |-> v, tls |-> 0]]
    /\ UNCHANGED <<procVars, store, hist, resp, inflight>>

\* one turn of the request loop of connection c: request req is read, run
\* against the datastore and answered
Serve(c, req) ==
    LET r == Execute(store, req)
    IN  /\ store' = r.store
        /\ resp' = r.resp
        /\ hist' = Append(hist, req)
        /\ conn' = IF r.open THEN conn ELSE [conn EXCEPT ![c].state = "closed"]

Request(c) ==
    /\ conn[c].state = "loop"
    /\ Len(hist) < MaxRequests
    /\ \/ \E req \in ReadRequests : Serve(c, req)
       \/ \E req \in CoilWriteRequests : Serve(c, req)
       \/ \E req \in RegisterWriteRequests : Serve(c, req)
    /\ UNCHANGED <<procVars, inflight>>

\* the peer closes connection c
Close(c) ==
    /\ conn[c].state = "loop"
    /\ conn' = [conn EXCEPT ![c].state = "closed"]
    /\ UNCHANGED <<procVars, store, hist, resp, inflight>>

\* connections come and go; one request is served in a run
ConnNext ==
    \E c \in Conns :
        \/ Connect(c)
        \/ Handshake(c)
        \/ Close(c)
        \/ (hist = <<>> /\ Request(c))

ConnSpec == ConnInit /\ [][ConnNext]_vars

\* every connection is established (for TLS: the handshake has completed at
\* TLS 1.2) and the clients send requests
DataInit ==
    /\ ServeInit
    /\ conn = [c \in Conns |->
                 [state |-> "loop",
                  offered |-> IF variant = "tls" THEN TLSv1_2 ELSE 0,
                  tls |-> IF variant = "tls" THEN TLSv1_2 ELSE 0]]

DataNext == \E c \in Conns : Request(c)

DataSpec == DataInit /\ [][DataNext]_vars

----------------------------------------------------------------------------
(* Several connections against the one context. start() hands the single    *)
(* ModbusServerContext to the library server, which runs on the one asyncio *)
(* event loop of asyncio.run: a frame that arrives on a connection is       *)
(* decoded and its handler scheduled; the handler runs when the loop gets   *)
(* to it, and other connections' frames and handlers run in between. What   *)
(* the handler does between two points at which it gives the loop back is   *)
(* one step.                                                                *)

\* reads of the two values at request addresses 0 and 1 of the coils and of
\* the holding registers
AtomReadRequests ==
    {ReadRequest(1, 0, 2), ReadRequest(3, 0, 2)}

\* FC 15 for the coils at request addresses 0 and 1 (seeded FALSE, TRUE)
AtomCoilWriteRequests ==
    {WriteRequest(15, 0, <<TRUE, FALSE>>)}

\* FC 16 for the holding registers at request addresses 0 and 1, with two
\* different value sequences
AtomRegisterWriteRequests ==
    {WriteRequest(16, 0, <<7, 8>>), WriteRequest(16, 0, <<9, 10>>)}

\* the requests received and not yet answered
Unanswered == {c \in Conns : inflight[c].stage = "task"}

\* a request frame arrives on connection c and its handler is scheduled
Arrive(c, req) ==
    /\ conn[c].state = "loop"
    /\ inflight[c].stage = "none"
    /\ Len(hist) + Cardinality(Unanswered) < MaxRequests
    /\ inflight' = [inflight EXCEPT ![c].stage = "task", ![c].req = req,
                                    ![c].done = 0]
    /\ UNCHANGED <<procVars, store, conn, hist, resp>>

Receive(c) ==
    \/ \E req \in AtomReadRequests : Arrive(c, req)
    \/ \E req \in AtomCoilWriteRequests : Arrive(c, req)
    \/ \E req \in AtomRegisterWriteRequests : Arrive(c, req)

\* (variation: a datastore that gives the event loop back after every value
\* it stores)
ValuesPerTurn_One(req) == 1

\* how many values of a write the context's setValues stores before the
\* handler can give the event loop back: all of them. The blocks are the
\* library's in-memory ModbusSequentialDataBlock, whose setValues is a plain
\* slice assignment, and the context's async_setValues awaits nothing else.
ValuesPerTurn(req) == Len(req.values)

\* one step of the handler of connection c's request. A read, and a request
\* whose range does not validate, are answered in one step, as in Serve. A
\* write stores its values, ValuesPerTurn of them a step, and is answered
\* once all are stored.
Handle(c) ==
    /\ inflight[c].stage = "task"
    /\ LET req == inflight[c].req
           done == inflight[c].done
           answered == [inflight EXCEPT ![c].stage = "none", ![c].done = 0,
                                        ![c].last = Len(hist) + 1]
       IN  IF \/ req.fc \in ReadFCs
              \/ ~ContextValidate(store, req.fc, req.address, req.count)
           THEN /\ Serve(c, req)
                /\ inflight' = answered
           ELSE LET left == Len(req.values) - done
                    k == IF ValuesPerTurn(req) < left THEN ValuesPerTurn(req)
                         ELSE left
                    part == SubSeq(req.values, done + 1, done + k)
                IN  /\ store' = ContextSetValues(store, req.fc,
                                                 req.address + done, part)
                    /\ IF done + k = Len(req.values)
                       THEN /\ resp' = WriteResponse(req.values)
                            /\ hist' = Append(hist, req)
                            /\ inflight' = answered
                       ELSE /\ inflight' = [inflight EXCEPT
                                               ![c].done = done + k]
                            /\ UNCHANGED <<resp, hist>>
                    /\ UNCHANGED conn
    /\ UNCHANGED procVars

AtomNext == \E c \in Conns : Receive(c) \/ Handle(c)

AtomSpec == DataInit /\ [][AtomNext]_vars

----------------------------------------------------------------------------
(* Properties of the process: standard output, startup, shutdown *)

\* positions of main / json_main before the print that follows start()
BeforePrint == {"start", "serve", "lookup", "print"}

\* start() has returned its port
StartReturned == actual_port # NoPort

\* the print that follows start() has been executed
Printed == StartReturned /\ pc \notin BeforePrint

\* indices of the port lines on standard output
PortLines == {i \in 1..Len(stdout) :
                stdout[i].kind \in {"MODBUS_PORT", "MODBUS_TLS_PORT"}}

\* C1 (as claimed). In default mode: once start() has returned and the print
\* has run there is exactly one port line on standard output, of the server's
\* kind; a port line is on standard output only if the listening socket was
\* bound before; and nothing is printed before start() has returned, so the
\* line precedes the wait on the shutdown event.
C1_PortLineAfterBind ==
    ~json =>
        /\ (Printed =>
              /\ Cardinality(PortLines) = 1
              /\ Len(stdout) = 1
              /\ stdout[1].kind = (IF variant = "tcp" THEN "MODBUS_PORT"
                                   ELSE "MODBUS_TLS_PORT"))
        /\ (PortLines # {} => everBound)
        /\ (pc \in BeforePrint => stdout = <<>>)

\* C2 (as claimed). With requested port 0, the port start() returns, and the
\* port of every line printed, lies in 1..65535.
C2_EphemeralPortInRange ==
    (port = 0 /\ StartReturned) =>
        /\ actual_port \in 1..65535
        /\ \A i \in 1..Len(stdout) : stdout[i].port \in 1..65535

\* C3 (as claimed). Once the certificate load or the bind has failed, nothing
\* is ever written to standard output, the process does not settle into the
\* wait on the shutdown event, and when it has exited its status is nonzero.
C3_StartupFailureIsFatal ==
    failure # "none" =>
        /\ stdout = <<>>
        /\ (pc = "done" => exitStatus = 1)

\* C4 (as claimed), for finished runs: if a signal was delivered after the
\* handlers were installed, the process has run shutdown() once, the listener
\* is closed, and the exit status is 0.
C4_SignalAlwaysExitsZero ==
    (pc = "done" /\ delivered > 0) =>
        /\ exitStatus = 0
        /\ shutdownCalls = 1
        /\ ~listening

\* stop() is entered on a run whose start() returned only after a signal set
\* the event
C4_NoStopWithoutSignal ==
    (StartReturned /\ pc \in {"finally", "stop", "shutdown", "exit", "done"})
        => (shutdown_event /\ delivered > 0)

\* the process has shut the library server down and exited with status 0
C4_CleanExit ==
    /\ pc = "done"
    /\ exitStatus = 0
    /\ shutdownCalls = 1
    /\ ~listening
    /\ server = "None"

\* C4 (amended). On a run in which start() returns, a SIGINT/SIGTERM delivered
\* at any point after the handlers are installed (during start(), during the
\* wait, more than once) is not lost: the process leaves the wait, stop() runs
\* the library's shutdown(), the listener is closed and the process exits with
\* status 0. Without a signal stop() is never called after start() returned.
C4_SignalNotLost ==
    /\ [](C4_NoStopWithoutSignal)
    /\ ((delivered > 0 /\ StartReturned) ~> C4_CleanExit)

\* a run with two signals, one of them handled while start() was awaiting the
\* library, that ended in a clean exit
C4_Witness ==
    /\ C4_CleanExit
    /\ delivered = 2
    /\ pending = 0
    /\ StartReturned

\* C6. In --json mode standard output is empty until the print that follows
\* start(); from then on it holds exactly one line, the JSON object with the
\* host, the port start() returned and status "running"; there is never a
\* port line nor a second line, whatever --verbose is.
C6_JsonSingleLine ==
    json =>
        /\ Len(stdout) <= 1
        /\ PortLines = {}
        /\ (pc \in BeforePrint \/ ~StartReturned => stdout = <<>>)
        /\ (Printed =>
              /\ Len(stdout) = 1
              /\ stdout[1].kind = "json"
              /\ stdout[1].status = "running"
              /\ stdout[1].host = Host(variant)
              /\ stdout[1].port = actual_port)

\* a verbose --json run that has printed its object and exited cleanly
C6_Witness ==
    /\ json
    /\ verbose
    /\ pc = "done"
    /\ exitStatus = 0
    /\ Len(stdout) = 1
    /\ stdout[1].kind = "json"

----------------------------------------------------------------------------
(* Properties of the served data and of the connections *)

\* the last request served
LastReq == hist[Len(hist)]

\* the requests served before the last one
Earlier == SubSeq(hist, 1, Len(hist) - 1)

\* the datastore after serving the requests h, in order, starting from ctx
RECURSIVE ReplayStore(_, _)
ReplayStore(ctx, h) ==
    IF h = <<>> THEN ctx
    ELSE Execute(ReplayStore(ctx, SubSeq(h, 1, Len(h) - 1)), h[Len(h)]).store

\* the reference seed as the specification states it, by space and address
RefSeed(s, i) ==
    CASE s = "co" -> (i % 2 = 0)
      [] s = "di" -> (i < 100)
      [] s = "hr" -> i
      [] s = "ir" -> i * 10

\* C5 (as claimed). Before any write, a read of count values at a request
\* address with address + count <= 1000 is answered with the reference seed of
\* exactly those addresses (no offset): Coils[i] = (i % 2 = 0),
\* DiscreteInputs[i] = (i < 100), HoldingRegisters[i] = i,
\* InputRegisters[i] = i * 10; so holding registers (0, 5) give 0,1,2,3,4.
C5_ReadsReturnSeed ==
    (/\ hist # <<>>
     /\ \A i \in 1..Len(hist) : hist[i].fc \in ReadFCs
     /\ LastReq.address + LastReq.count <= 1000)
    => /\ resp.kind = "values"
       /\ resp.values = [k \in 1..LastReq.count |->
                           RefSeed(Decode(LastReq.fc), LastReq.address + k - 1)]

\* C7. On the TLS server a connection is in the request loop only if its
\* handshake completed at TLS 1.2 or higher; a connection whose client offered
\* less than TLS 1.2 is closed; and the step in which a handshake fails changes
\* nothing but that connection: the listener, the datastore and every other
\* connection stay as they were.
C7_LoopOnlyAfterHandshake ==
    variant = "tls" =>
        \A c \in Conns :
            /\ (conn[c].state = "loop" => conn[c].tls >= 771)
            /\ (conn[c].state \in {"loop", "closed"} /\ conn[c].offered < 771
                    => conn[c].state = "closed" /\ conn[c].tls = 0)

C7_FailedHandshakeIsLocal ==
    \A c \in Conns :
        (conn[c].state = "handshake" /\ conn'[c].state = "closed")
            => /\ listening' = listening
               /\ server' = server
               /\ store' = store
               /\ \A d \in Conns \ {c} : conn'[d] = conn[d]

\* C7. Both parts together: the request loop is entered only after a
\* completed TLS 1.2+ handshake, and a failed handshake closes only its own
\* connection.
C7_TlsHandshakeGuardsLoop ==
    /\ [](C7_LoopOnlyAfterHandshake)
    /\ [][C7_FailedHandshakeIsLocal]_vars

\* a TLS server with one connection rejected for offering TLS 1.1 and another
\* that completed TLS 1.3 and has been served a request
C7_Witness ==
    /\ variant = "tls"
    /\ listening
    /\ \E c, d \in Conns :
          /\ conn[c].state = "closed" /\ conn[c].offered = 770
          /\ conn[d].state = "loop" /\ conn[d].tls = 772
    /\ resp.kind = "values"

OtherVariant(v) == IF v = "tcp" THEN "tls" ELSE "tcp"

\* C8. The two _create_datastore functions give the same contents, and at
\* every point the datastore of the running server and its last response are
\* the ones the other server (plaintext for TLS, TLS for plaintext) has after
\* the same sequence of requests from its own seed.
C8_SameAsOtherServer ==
    LET peer == create_datastore(OtherVariant(variant))
    IN  /\ ReferenceServer_create_datastore = TLSReferenceServer_create_datastore
        /\ store = ReplayStore(peer, hist)
        /\ (hist # <<>> =>
              resp = Execute(ReplayStore(peer, Earlier), LastReq).resp)

\* the TLS server after an accepted write followed by a read that returned
\* values
C8_Witness ==
    /\ variant = "tls"
    /\ Len(hist) = 2
    /\ hist[1].fc \in WriteFCs
    /\ store # create_datastore("tls")
    /\ hist[2].fc \in ReadFCs
    /\ resp.kind = "values"

\* the read function code of the space a function code addresses
ReadFcOf(fc) ==
    CASE Decode(fc) = "co" -> 1
      [] Decode(fc) = "di" -> 2
      [] Decode(fc) = "hr" -> 3
      [] Decode(fc) = "ir" -> 4

\* what a read of count values at address in the space of fc is answered
\* with, given datastore ctx
ReadBack(ctx, fc, address, count) ==
    Execute(ctx, ReadRequest(ReadFcOf(fc), address, count)).resp

\* C9 (as claimed). A write of values at an address with address >= 0 and
\* address + quantity <= 1000 is accepted; a read of the same range, issued
\* next or evaluated on the state the write leaves, returns exactly the
\* written values; and single reads of every other address of that space and
\* of every address of the other spaces are answered as before the write.
C9_ReadAfterWrite ==
    LET n == Len(hist)
        before == ReplayStore(create_datastore(variant), Earlier)
    IN  /\ (/\ n >= 1
            /\ LastReq.fc \in WriteFCs
            /\ LastReq.address + LastReq.count <= 1000)
           => /\ resp.kind = "written"
              /\ ReadBack(store, LastReq.fc, LastReq.address, LastReq.count)
                   = ValuesResponse(LastReq.values)
              /\ \A fc \in ReadFCs, a \in 0..999 :
                    (\/ fc # ReadFcOf(LastReq.fc)
                     \/ a < LastReq.address
                     \/ a >= LastReq.address + LastReq.count)
                    => ReadBack(store, fc, a, 1) = ReadBack(before, fc, a, 1)
        /\ (/\ n >= 2
            /\ hist[n - 1].fc \in WriteFCs
            /\ hist[n - 1].address + hist[n - 1].count <= 1000
            /\ LastReq = ReadRequest(ReadFcOf(hist[n - 1].fc),
                                     hist[n - 1].address, hist[n - 1].count))
           => resp = ValuesResponse(hist[n - 1].values)

\* C10. A read or write request whose address + quantity exceeds 1000 is
\* answered with the exception response Illegal Data Address (0x02), leaves
\* the datastore exactly as the earlier requests left it, and leaves every
\* connection in its request loop.
C10_OutOfRangeRejected ==
    (hist # <<>> /\ LastReq.address + LastReq.count > 1000)
    => /\ resp.kind = "exception"
       /\ resp.code = 2
       /\ store = ReplayStore(create_datastore(variant), Earlier)
       /\ \A c \in Conns : conn[c].state = "loop"

\* an accepted write followed by a write beyond the block that was refused
C10_Witness ==
    /\ Len(hist) = 2
    /\ hist[1].fc \in WriteFCs
    /\ store # create_datastore(variant)
    /\ hist[2].fc \in WriteFCs
    /\ hist[2].address + hist[2].count > 1000
    /\ resp.kind = "exception"
    /\ \A c \in Conns : conn[c].state = "loop"

----------------------------------------------------------------------------
(* Properties of writes from several connections *)

\* request i of hist is a write the datastore accepted
AcceptedWrite(i) ==
    /\ hist[i].fc \in WriteFCs
    /\ ContextValidate(store, hist[i].fc, hist[i].address, hist[i].count)

\* a read is answered from the datastore as the requests answered before it
\* left it, each of them applied in full
C11_ReadsSeeWholeWrites ==
    (hist # <<>> /\ LastReq.fc \in ReadFCs)
    => resp = Execute(ReplayStore(create_datastore(variant), Earlier),
                      LastReq).resp

\* the datastore is the seed with the answered requests applied in full, in
\* the order they were answered; after two accepted writes to the same
\* addresses those addresses hold all the values of one of the two
C11_LastWriteInFull ==
    /\ store = ReplayStore(create_datastore(variant), hist)
    /\ \A i, j \in 1..Len(hist) :
          (/\ i < j
           /\ j = Len(hist)
           /\ AcceptedWrite(i)
           /\ AcceptedWrite(j)
           /\ hist[i].fc = hist[j].fc
           /\ hist[i].address = hist[j].address
           /\ hist[i].count = hist[j].count)
          => LET back == ReadBack(store, hist[j].fc, hist[j].address,
                                  hist[j].count)
             IN  \/ back = ValuesResponse(hist[i].values)
                 \/ back = ValuesResponse(hist[j].values)

\* a space no accepted write addressed holds its seed
C11_OtherSpacesUntouched ==
    \A s \in Spaces :
        (\A i \in 1..Len(hist) : AcceptedWrite(i) => Decode(hist[i].fc) # s)
        => store[s] = create_datastore(variant)[s]

----------------------------------------------------------------------------
(* Properties of the lifecycle of the library server object *)

\* shutdown() calls made on the objects o
RECURSIVE ShutdownsOn(_)
ShutdownsOn(o) ==
    IF o = <<>> THEN 0 ELSE o[Len(o)] + ShutdownsOn(SubSeq(o, 1, Len(o) - 1))

\* no server object has had shutdown() called twice, every shutdown() call
\* was made on an object that had been created, and stop() awaits shutdown()
\* only while self.server refers to an object
C12_ShutdownAtMostOnce ==
    /\ \A i \in 1..Len(objs) : objs[i] <= 1
    /\ ShutdownsOn(objs) = shutdownCalls
    /\ (pc = "shutdown" => server = "obj" /\ objs # <<>>)

\* when main (not json_main, and with no other caller involved) has exited,
\* on whichever path, every server object created has been shut down
C12_MainShutsDownWhatItCreated ==
    (pc = "done" /\ ~json /\ calls = 0)
    => /\ \A i \in 1..Len(objs) : objs[i] = 1
       /\ server = "None"
       /\ ~listening

\* the step in which stop() returns leaves self.server None
C12_NoneAfterStop ==
    (pc \in {"stop", "shutdown"} /\ pc' = "exit") => server' = "None"

\* stop() while self.server is None returns having changed nothing
C12_StopOnNoneIsNoOp ==
    (pc = "stop" /\ server = "None" /\ pc' # pc)
    => /\ pc' = "exit"
       /\ UNCHANGED <<server, shutdownCalls, objs, listening, transport,
                      store, actual_port, stdout>>

\* C12. Over every sequence of start() and stop() calls and on every exit
\* path of main (normal shutdown, start() raising before or after the server
\* object was assigned): shutdown() is called at most once on each server
\* object created and never when none was created, self.server is None after
\* stop() returns, a second stop() is a no-op, and every server object that a
\* start() in main created is shut down before the process exits.
C12_LifecycleShutdown ==
    /\ [](C12_ShutdownAtMostOnce)
    /\ [](C12_MainShutsDownWhatItCreated)
    /\ [][C12_NoneAfterStop]_vars
    /\ [][C12_StopOnNoneIsNoOp]_vars

\* a caller's second call was a stop() that has returned, with the one server
\* object created shut down once and self.server None
C12_Witness ==
    /\ calls = 2
    /\ pc = "exit"
    /\ objs = <<1>>
    /\ shutdownCalls = 1
    /\ server = "None"

====
